---- MODULE Spec2Model ----
(***************************************************************************)
(* A model of the poker hand evaluator of pokerlib (pokerlib.c, poker.h,   *)
(* allfive.c): the deck builder, the card search, the shuffle, the         *)
(* five-card and seven-card evaluators, the rank classifier and the        *)
(* exhaustive five-card harness.                                           *)
(*                                                                         *)
(* C arrays are functions over 0..len-1 so that indexes read as in the     *)
(* source.  A C int holds values in -2^31..2^31-1; an unsigned 32-bit      *)
(* value is kept as a pair <<hi, lo>> of 16-bit halves, because the        *)
(* arithmetic of find_fast wraps modulo 2^32.                              *)
(***************************************************************************)
EXTENDS Integers, Sequences, FiniteSets, TLC

VARIABLES
    pc,       \* position of the running routine
    deck,     \* int deck[52]
    n,        \* init_deck: n; shuffle_deck: n; main: n
    suit,     \* init_deck: suit; find_card: suit
    i,        \* loop index of init_deck, find_card, shuffle_deck, eval_7hand
    j,        \* init_deck: j
    rank,     \* find_card: rank
    temp,     \* shuffle_deck: temp[52]
    hand,     \* the hand array handed to an evaluator
    q,        \* eval_5cards: q (first use); eval_7hand: q
    prod,     \* eval_5cards: q (second use, the product of primes)
    u,        \* find_fast: u, as <<hi, lo>>
    a,        \* find_fast: a
    b,        \* find_fast: b
    best,     \* eval_7hand: best
    subhand,  \* eval_7hand: subhand[5]
    idx,      \* main: the loop indexes <<a, b, c>>
    freq,     \* main: freq[10]
    outside,  \* main: how many values eval_5hand returned outside 1..7462
    val,      \* hand_rank: val; main: value
    ret       \* the value a routine returned

vars == <<pc, deck, n, suit, i, j, rank, temp, hand, q, prod, u, a, b, best,
          subhand, idx, freq, outside, val, ret>>

(***************************************************************************)
(* poker.h                                                                 *)
(***************************************************************************)
STRAIGHT_FLUSH == 1
FOUR_OF_A_KIND == 2
FULL_HOUSE == 3
FLUSH == 4
STRAIGHT == 5
THREE_OF_A_KIND == 6
TWO_PAIR == 7
ONE_PAIR == 8
HIGH_CARD == 9

CLUB == 32768      \* 0x8000
DIAMOND == 16384   \* 0x4000
HEART == 8192      \* 0x2000
SPADE == 4096      \* 0x1000

Suits == {CLUB, DIAMOND, HEART, SPADE}
Ranks == 2..14     \* Deuce .. Ace

DeckLen == 52

(***************************************************************************)
(* C integer operators on non-negative ints below 2^31.                    *)
(***************************************************************************)
Pow2Table == [k \in 0..30 |->
    <<1, 2, 4, 8, 16, 32, 64, 128, 256, 512, 1024, 2048, 4096, 8192, 16384,
      32768, 65536, 131072, 262144, 524288, 1048576, 2097152, 4194304,
      8388608, 16777216, 33554432, 67108864, 134217728, 268435456,
      536870912, 1073741824>>[k + 1]]

Pow2(k) == Pow2Table[k]

Shl(x, k) == x * Pow2(k)
Shr(x, k) == x \div Pow2(k)

\* The function f with every value worked out and kept (f itself, as a table).
Stored(f) == f @@ f

\* x & y on one byte, bit by bit.
RECURSIVE AndBits(_, _)
AndBits(x, y) ==
    IF x = 0 \/ y = 0 THEN 0
    ELSE (IF x % 2 = 1 /\ y % 2 = 1 THEN 1 ELSE 0)
         + 2 * AndBits(x \div 2, y \div 2)

ByteAnd == Stored([x \in 0..255 |-> Stored([y \in 0..255 |-> AndBits(x, y)])])

ByteOr == Stored([x \in 0..255 |-> Stored([y \in 0..255 |-> x + y - ByteAnd[x][y]])])

\* The four bytes of a non-negative int, B0 the lowest.
B0(x) == x % 256
B1(x) == (x \div 256) % 256
B2(x) == (x \div 65536) % 256
B3(x) == x \div 16777216

\* x & y, x | y and x ^ y on non-negative ints, byte by byte.
BitAnd(x, y) ==
    ByteAnd[B0(x)][B0(y)] + 256 * ByteAnd[B1(x)][B1(y)]
    + 65536 * ByteAnd[B2(x)][B2(y)] + 16777216 * ByteAnd[B3(x)][B3(y)]

BitOr(x, y) == x + y - BitAnd(x, y)

BitXor(x, y) == x + y - 2 * BitAnd(x, y)

RECURSIVE BitCount(_)
BitCount(x) == IF x = 0 THEN 0 ELSE (x % 2) + BitCount(x \div 2)

\* poker.h: #define RANK(x) ((x >> 8) & 0xF)
RANK(x) == BitAnd(Shr(x, 8), 15)

(***************************************************************************)
(* arrays.h: primes[13], the prime of each rank, deuce first.              *)
(***************************************************************************)
primes ==
    Stored([k \in 0..12 |-> <<2, 3, 5, 7, 11, 13, 17, 19, 23, 29, 31, 37, 41>>[k + 1]])

(***************************************************************************)
(* hand_rank                                                               *)
(***************************************************************************)
\* hand_rank with the straights starting one class early (>= for >).
hand_rank_offByOne(v) ==
    IF v > 6185 THEN HIGH_CARD
    ELSE IF v > 3325 THEN ONE_PAIR
    ELSE IF v > 2467 THEN TWO_PAIR
    ELSE IF v > 1609 THEN THREE_OF_A_KIND
    ELSE IF v >= 1599 THEN STRAIGHT
    ELSE IF v > 322 THEN FLUSH
    ELSE IF v > 166 THEN FULL_HOUSE
    ELSE IF v > 10 THEN FOUR_OF_A_KIND
    ELSE STRAIGHT_FLUSH

\* hand_rank with the two-pair classes starting one class late.
hand_rank_lateTwoPair(v) ==
    IF v > 6185 THEN HIGH_CARD
    ELSE IF v > 3325 THEN ONE_PAIR
    ELSE IF v > 2468 THEN TWO_PAIR
    ELSE IF v > 1609 THEN THREE_OF_A_KIND
    ELSE IF v > 1599 THEN STRAIGHT
    ELSE IF v > 322 THEN FLUSH
    ELSE IF v > 166 THEN FULL_HOUSE
    ELSE IF v > 10 THEN FOUR_OF_A_KIND
    ELSE STRAIGHT_FLUSH

hand_rank(v) ==
    IF v > 6185 THEN HIGH_CARD
    ELSE IF v > 3325 THEN ONE_PAIR
    ELSE IF v > 2467 THEN TWO_PAIR
    ELSE IF v > 1609 THEN THREE_OF_A_KIND
    ELSE IF v > 1599 THEN STRAIGHT
    ELSE IF v > 322 THEN FLUSH
    ELSE IF v > 166 THEN FULL_HOUSE
    ELSE IF v > 10 THEN FOUR_OF_A_KIND
    ELSE STRAIGHT_FLUSH

(***************************************************************************)
(* Unsigned 32-bit arithmetic on <<hi, lo>> pairs of 16-bit halves.        *)
(***************************************************************************)
U32(x) == <<x \div 65536, x % 65536>>

Add32(x, y) ==
    LET lo == x[2] + y[2]
    IN  <<(x[1] + y[1] + (lo \div 65536)) % 65536, lo % 65536>>

Xor32(x, y) == <<BitXor(x[1], y[1]), BitXor(x[2], y[2])>>

And32(x, y) == <<BitAnd(x[1], y[1]), BitAnd(x[2], y[2])>>

\* x >> k, 0 <= k < 32
Shr32(x, k) ==
    IF k >= 16 THEN <<0, Shr(x[1], k - 16)>>
    ELSE <<Shr(x[1], k), Shr(x[2], k) + (x[1] % Pow2(k)) * Pow2(16 - k)>>

\* x << k, 0 <= k < 16, the bits shifted out of the 32 dropped
Shl32(x, k) ==
    <<(x[1] * Pow2(k) + Shr(x[2], 16 - k)) % 65536, (x[2] * Pow2(k)) % 65536>>

(***************************************************************************)
(* find_fast: the mixing steps, then the two indexes a and b.              *)
(***************************************************************************)
\* u += 0xe91aaa35; u ^= u >> 16; u += u << 8; u ^= u >> 4;
FindFastMix(x) ==
    LET u1 == Add32(x, <<59674, 43573>>)
        u2 == Xor32(u1, Shr32(u1, 16))
        u3 == Add32(u2, Shl32(u2, 8))
    IN  Xor32(u3, Shr32(u3, 4))

\* b taken with a mask of ten bits instead of nine.
FindFastB_mask10(m) == And32(Shr32(m, 8), <<0, 1023>>)[2]

\* b = (u >> 8) & 0x1ff
FindFastB(m) == And32(Shr32(m, 8), <<0, 511>>)[2]

\* a = (u + (u << 2)) >> 19
FindFastA(m) == Shr32(Add32(m, Shl32(m, 2)), 19)[2]

(***************************************************************************)
(* init_deck                                                               *)
(***************************************************************************)
\* The card with rank nibble 1+j instead of 2+j.
InitDeckCard_rank1(jj, s) ==
    BitOr(BitOr(BitOr(primes[jj], Shl(1 + jj, 8)), s), Shl(1, 16 + jj))

\* deck[n] = primes[j] | ((2+j) << 8) | suit | (1 << (16+j))
InitDeckCard(jj, s) ==
    BitOr(BitOr(BitOr(primes[jj], Shl(2 + jj, 8)), s), Shl(1, 16 + jj))

\* The deck init_deck leaves behind: the two loops run to completion.
BuiltDeck == Stored([k \in 0..(DeckLen - 1) |->
                InitDeckCard(k % 13, Shr(CLUB, k \div 13))])

EmptyDeck == [k \in 0..(DeckLen - 1) |-> 0]

\* One pass of the inner loop body, with the j++, n++ and, at the end of a
\* row, the i++, suit >>= 1 of the outer loop.
InitDeckStep ==
    /\ pc = "init_deck"
    /\ i < 4
    /\ j < 13
    /\ deck' = [deck EXCEPT ![n] = InitDeckCard(j, suit)]
    /\ n' = n + 1
    /\ IF j + 1 < 13
         THEN /\ j' = j + 1
              /\ UNCHANGED <<i, suit, pc>>
         ELSE /\ j' = 0
              /\ i' = i + 1
              /\ suit' = Shr(suit, 1)
              /\ pc' = IF i + 1 < 4 THEN "init_deck" ELSE "ready"
    /\ UNCHANGED <<rank, temp, hand, q, prod, u, a, b, best, subhand, idx, freq,
                   outside, val, ret>>

(***************************************************************************)
(* find_card                                                               *)
(***************************************************************************)
FindCardCall ==
    /\ pc = "ready"
    /\ \E r \in Ranks, s \in Suits :
         /\ rank' = r
         /\ suit' = s
    /\ i' = 0
    /\ pc' = "find_card"
    /\ UNCHANGED <<deck, n, j, temp, hand, q, prod, u, a, b, best, subhand, idx,
                   freq, outside, val, ret>>

\* if ((c & suit) && (RANK(c) == rank))
FindCardMatch(c, r, s) == BitAnd(c, s) # 0 /\ RANK(c) = r

FindCardStep ==
    /\ pc = "find_card"
    /\ IF i < DeckLen
         THEN IF FindCardMatch(deck[i], rank, suit)
                THEN /\ ret' = i
                     /\ pc' = "returned"
                     /\ UNCHANGED i
                ELSE /\ i' = i + 1
                     /\ UNCHANGED <<ret, pc>>
         ELSE /\ ret' = -1
              /\ pc' = "returned"
              /\ UNCHANGED i
    /\ UNCHANGED <<deck, n, suit, j, rank, temp, hand, q, prod, u, a, b, best,
                   subhand, idx, freq, outside, val>>

InitDeck ==
    /\ pc = "init_deck"
    /\ deck = EmptyDeck
    /\ n = 0
    /\ suit = CLUB
    /\ i = 0
    /\ j = 0
    /\ rank = 0
    /\ temp = EmptyDeck
    /\ hand = <<>>
    /\ q = 0
    /\ prod = 0
    /\ u = <<0, 0>>
    /\ a = 0
    /\ b = 0
    /\ best = 0
    /\ subhand = <<>>
    /\ idx = <<0, 0, 0>>
    /\ freq = <<>>
    /\ outside = 0
    /\ val = 0
    /\ ret = 0

NextDeck == InitDeckStep \/ FindCardCall \/ FindCardStep

SpecDeck == InitDeck /\ [][NextDeck]_vars

(***************************************************************************)
(* arrays.h: the lookup tables.  Their contents are generated data; they   *)
(* are given here by what each entry stands for: the equivalence class of  *)
(* the rank pattern that indexes it, 1 the best and 7462 the worst.        *)
(***************************************************************************)
\* The ten straights as 13-bit rank masks, ace-high first, the wheel last.
StraightMasks == <<7936, 3968, 1984, 992, 496, 248, 124, 62, 31, 4111>>

StraightIndex(m) ==
    IF \E k \in 1..10 : StraightMasks[k] = m
      THEN CHOOSE k \in 1..10 : StraightMasks[k] = m
      ELSE 0

\* The 13-bit masks of five distinct ranks that are no straight (1277).
NoStraightMasks ==
    {m \in 0..8191 : BitCount(m) = 5 /\ StraightIndex(m) = 0}

\* How many of them beat m: a larger mask has the higher card where the two
\* first differ.
MaskPosition == Stored([m \in NoStraightMasks |->
                   Cardinality({x \in NoStraightMasks : x > m})])

\* flushes[8192]: straight flushes 1..10, flushes 323..1599, 0 elsewhere.
flushes == Stored([m \in 0..8191 |->
              IF BitCount(m) # 5 THEN 0
              ELSE IF StraightIndex(m) # 0 THEN StraightIndex(m)
              ELSE 323 + MaskPosition[m]])

\* unique5[8192]: straights 1600..1609, high cards 6186..7462, 0 for a mask
\* of fewer than five ranks.
unique5 == Stored([m \in 0..8191 |->
              IF BitCount(m) # 5 THEN 0
              ELSE IF StraightIndex(m) # 0 THEN 1599 + StraightIndex(m)
              ELSE 6186 + MaskPosition[m]])

\* How often the prime of rank index k divides p.
RECURSIVE Multiplicity(_, _)
Multiplicity(p, k) ==
    IF p % primes[k] # 0 THEN 0 ELSE 1 + Multiplicity(p \div primes[k], k)

Choose2(x) == (x * (x - 1)) \div 2
Choose3(x) == (x * (x - 1) * (x - 2)) \div 6

\* The class of a hand with a repeated rank, from the count of each rank;
\* 0 when the counts are those of no five-card hand of a 52-card deck.
PairedClass(cnt) ==
    LET With(c) == {k \in 0..12 : cnt[k] = c}
        Max(S) == CHOOSE x \in S : \A y \in S : y <= x
        Min(S) == CHOOSE x \in S : \A y \in S : x <= y
        \* the place of rank k among the ranks outside Out, best first
        Place(k, Out) == (12 - k) - Cardinality({x \in Out : x > k})
        \* rank k renumbered with the ranks of Out taken away
        Renum(k, Out) == k - Cardinality({x \in Out : x < k})
    IN  IF Cardinality(With(4)) = 1 /\ Cardinality(With(1)) = 1
          THEN 11 + (12 - Max(With(4))) * 12 + Place(Max(With(1)), With(4))
        ELSE IF Cardinality(With(3)) = 1 /\ Cardinality(With(2)) = 1
          THEN 167 + (12 - Max(With(3))) * 12 + Place(Max(With(2)), With(3))
        ELSE IF Cardinality(With(3)) = 1 /\ Cardinality(With(1)) = 2
          THEN 1610 + (12 - Max(With(3))) * 66
                    + (65 - Choose2(Renum(Max(With(1)), With(3)))
                          - Renum(Min(With(1)), With(3)))
        ELSE IF Cardinality(With(2)) = 2 /\ Cardinality(With(1)) = 1
          THEN 2468 + (77 - Choose2(Max(With(2))) - Min(With(2))) * 11
                    + Place(Max(With(1)), With(2))
        ELSE IF Cardinality(With(2)) = 1 /\ Cardinality(With(1)) = 3
          THEN LET k1 == Max(With(1))
                   k3 == Min(With(1))
                   k2 == CHOOSE x \in With(1) : x # k1 /\ x # k3
               IN  3326 + (12 - Max(With(2))) * 220
                        + (219 - Choose3(Renum(k1, With(2)))
                               - Choose2(Renum(k2, With(2)))
                               - Renum(k3, With(2)))
        ELSE 0

\* The choices of five rank indexes, repeats allowed, in ascending order.
RankTuples ==
    UNION {UNION {UNION {UNION {{<<x1, x2, x3, x4, x5>> : x5 \in x4..12} :
       x4 \in x3..12} : x3 \in x2..12} : x2 \in x1..12} : x1 \in 0..12}

\* The products of the primes of five ranks, not all five the same.
HashKeys ==
    {primes[t[1]] * primes[t[2]] * primes[t[3]] * primes[t[4]] * primes[t[5]] :
       t \in {x \in RankTuples : x[1] # x[5]}}

\* hash_values[find_fast(p)]: the perfect hash sends the product p of the
\* five rank primes to the class of the hand with those ranks (0 for five
\* distinct ranks, which eval_5cards never looks up).
hash_lookup == Stored([p \in HashKeys |->
                  PairedClass([k \in 0..12 |-> Multiplicity(p, k)])])

(***************************************************************************)
(* eval_5cards.  Each of its three expressions over c1..c5 is formed from  *)
(* left to right, as C does: first over c1..c4 (the ...4 operators), then  *)
(* with c5 (the ...5 operators).                                           *)
(***************************************************************************)
\* x ^ y in the place of x | y.
Or16_xor(x, y) ==
    (ByteOr[x % 256][y % 256] - ByteAnd[x % 256][y % 256])
    + 256 * (ByteOr[x \div 256][y \div 256] - ByteAnd[x \div 256][y \div 256])

\* x | y on values below 2^16
Or16(x, y) ==
    ByteOr[x % 256][y % 256] + 256 * ByteOr[x \div 256][y \div 256]

\* c >> 16
High(c) == c \div 65536

\* int q = (c1 | c2 | c3 | c4 | c5) >> 16;
\* bits 16 and up of the OR are the OR of bits 16 and up of the cards
EvalQ4(c1, c2, c3, c4) == Or16(Or16(Or16(High(c1), High(c2)), High(c3)), High(c4))
EvalQ5(q4, c5) == Or16(q4, High(c5))

\* c1 & c2 & c3 & c4 & c5 & 0xf000: the mask lies in byte 1, and byte 1 of
\* the AND is the AND of the cards' bytes 1
EvalFlush4(c1, c2, c3, c4) == ByteAnd[ByteAnd[ByteAnd[B1(c1)][B1(c2)]][B1(c3)]][B1(c4)]

\* The flush test with the mask 0xff00 instead of 0xf000.
EvalFlush5_maskff00(s4, c5) == ByteAnd[ByteAnd[s4][B1(c5)]][255] # 0

\* if (c1 & c2 & c3 & c4 & c5 & 0xf000)
EvalFlush5(s4, c5) == ByteAnd[ByteAnd[s4][B1(c5)]][240] # 0

\* The low five bits instead of the low eight.
LowByte_mask1f(x) == x % 32

\* (c & 0xff): the low eight bits
LowByte(x) == x % 256

\* q = (c1 & 0xff) * (c2 & 0xff) * (c3 & 0xff) * (c4 & 0xff) * (c5 & 0xff);
EvalProduct4(c1, c2, c3, c4) == LowByte(c1) * LowByte(c2) * LowByte(c3) * LowByte(c4)
EvalProduct5(p4, c5) == p4 * LowByte(c5)

\* The three branches of eval_5cards, given what c1..c4 contribute.
Eval5From(q4, s4, p4, c5) ==
    LET qq == EvalQ5(q4, c5)
    IN  IF EvalFlush5(s4, c5) THEN flushes[qq]
        ELSE IF unique5[qq] # 0 THEN unique5[qq]
        ELSE hash_lookup[EvalProduct5(p4, c5)]

EvalQ(c) == EvalQ5(EvalQ4(c[1], c[2], c[3], c[4]), c[5])
EvalFlush(c) == EvalFlush5(EvalFlush4(c[1], c[2], c[3], c[4]), c[5])
EvalProduct(c) == EvalProduct5(EvalProduct4(c[1], c[2], c[3], c[4]), c[5])

\* The value eval_5cards returns for the hand c (a sequence of five cards).
eval_5cards(c) ==
    Eval5From(EvalQ4(c[1], c[2], c[3], c[4]), EvalFlush4(c[1], c[2], c[3], c[4]),
              EvalProduct4(c[1], c[2], c[3], c[4]), c[5])

\* eval_5hand reads hand[0..4] and calls eval_5cards.
eval_5hand(h) == eval_5cards(<<h[1], h[2], h[3], h[4], h[5]>>)

(***************************************************************************)
(* allfive.c: main                                                         *)
(***************************************************************************)
\* int expected_freq[] = { 0, 40, 624, 3744, 5108, 10200, 54912, 123552, ... }
expected_freq == [k \in 0..9 |->
    <<0, 40, 624, 3744, 5108, 10200, 54912, 123552, 1098240, 1302540>>[k + 1]]

\* The indexes <<a, b, c>> of the next pass of the c loop body, the three
\* outer for loops advanced; a = 48 once they have all run out.
NextIdx(x) ==
    IF x[3] + 1 < 50 THEN <<x[1], x[2], x[3] + 1>>
    ELSE IF x[2] + 1 < 49 THEN <<x[1], x[2] + 1, x[2] + 2>>
    ELSE <<x[1] + 1, x[1] + 2, x[1] + 3>>

\* The e loop for given hand[0..2] and d: hand[3] = deck[d], then for each e
\*     hand[4] = deck[e]; value = eval_5hand(hand); n = hand_rank(value);
\*     freq[n]++;
\* values[e] and cats[e] are the value and the n of the pass for e; count[k]
\* is the number of passes whose n is k, by which freq[k] grows, and out the
\* number of passes whose value is not in 1..7462.
InnerPass(c1, c2, c3, d) ==
    LET c4 == deck[d]
        q4 == EvalQ4(c1, c2, c3, c4)
        s4 == EvalFlush4(c1, c2, c3, c4)
        p4 == EvalProduct4(c1, c2, c3, c4)
        es == (d + 1)..51
        values == Stored([e \in es |-> Eval5From(q4, s4, p4, deck[e])])
        cats == Stored([e \in es |-> hand_rank(values[e])])
    IN  [value |-> values[51],
         n |-> cats[51],
         count |-> Stored([k \in 0..9 |-> Cardinality({e \in es : cats[e] = k})]),
         out |-> Cardinality({e \in es : values[e] < 1 \/ values[e] > 7462})]

\* One pass of the c loop body: hand[2] = deck[c], then the whole d loop
\* with the e loop in it, and the loop steps that follow.  grown[d] and
\* outs[d] are freq and outside after the pass of the d loop for d.
MainPass(x) ==
    LET c1 == deck[x[1]]
        c2 == deck[x[2]]
        c3 == deck[x[3]]
        lo == x[3] + 1
        rows == Stored([d \in lo..50 |-> InnerPass(c1, c2, c3, d)])
        grown[d \in lo..50] ==
            LET before == IF d = lo THEN freq ELSE grown[d - 1]
            IN  [k \in 0..9 |-> before[k] + rows[d].count[k]]
        outs[d \in lo..50] ==
            (IF d = lo THEN outside ELSE outs[d - 1]) + rows[d].out
    IN  [hand |-> <<c1, c2, c3, deck[50], deck[51]>>,
         freq |-> grown[50],
         outside |-> outs[50],
         value |-> rows[50].value,
         n |-> rows[50].n]

MainStep ==
    /\ pc = "main"
    /\ idx[1] < 48
    /\ \E r \in {MainPass(idx)} :
         /\ hand' = r.hand
         /\ freq' = r.freq
         /\ outside' = r.outside
         /\ val' = r.value
         /\ n' = r.n
    /\ idx' = NextIdx(idx)
    /\ pc' = IF idx'[1] < 48 THEN "main" ELSE "report"
    /\ UNCHANGED <<deck, suit, i, j, rank, temp, q, prod, u, a, b, best, subhand,
                   ret>>

\* The loop that prints each count, with the expected one when they differ;
\* ret counts the lines that carry an "(expected ...)".
MainReport ==
    /\ pc = "report"
    /\ ret' = Cardinality({k \in 1..9 : freq[k] # expected_freq[k]})
    /\ pc' = "exit"
    /\ UNCHANGED <<deck, n, suit, i, j, rank, temp, hand, q, prod, u, a, b, best,
                   subhand, idx, freq, outside, val>>

InitMain ==
    /\ pc = "main"
    /\ deck = BuiltDeck
    /\ n = 0
    /\ suit = 0
    /\ i = 0
    /\ j = 0
    /\ rank = 0
    /\ temp = EmptyDeck
    /\ hand = <<>>
    /\ q = 0
    /\ prod = 0
    /\ u = <<0, 0>>
    /\ a = 0
    /\ b = 0
    /\ best = 0
    /\ subhand = <<>>
    /\ idx = <<0, 1, 2>>
    /\ freq = [k \in 0..9 |-> 0]
    /\ outside = 0
    /\ val = 0
    /\ ret = 0

NextMain == MainStep \/ MainReport

SpecMain == InitMain /\ [][NextMain]_vars

(***************************************************************************)
(* hand_rank, called with each class value.                                *)
(***************************************************************************)
\* "the parameter val should be in the range of 1-7462"
MaxClass == 7462

HandRankCall ==
    /\ pc = "hand_rank"
    /\ ret' = hand_rank(val)
    /\ pc' = "ranked"
    /\ UNCHANGED <<deck, n, suit, i, j, rank, temp, hand, q, prod, u, a, b, best,
                   subhand, idx, freq, outside, val>>

InitRank ==
    /\ pc = "hand_rank"
    /\ deck = EmptyDeck
    /\ n = 0
    /\ suit = 0
    /\ i = 0
    /\ j = 0
    /\ rank = 0
    /\ temp = EmptyDeck
    /\ hand = <<>>
    /\ q = 0
    /\ prod = 0
    /\ u = <<0, 0>>
    /\ a = 0
    /\ b = 0
    /\ best = 0
    /\ subhand = <<>>
    /\ idx = <<0, 0, 0>>
    /\ freq = <<>>
    /\ outside = 0
    /\ val \in 1..MaxClass
    /\ ret = 0

NextRank == HandRankCall

SpecRank == InitRank /\ [][NextRank]_vars

(***************************************************************************)
(* shuffle_deck, run on a deck of ShuffleLen cards: the 52 of its loops    *)
(* and of the factor 51.9999999 is ShuffleLen here.  drand48() returns a   *)
(* double in [0, 1), modelled by the fractions k / RandSteps.              *)
(***************************************************************************)
ShuffleLen == 5
RandSteps == 10

\* n = (int)(51.9999999 * drand48()), for drand48() = k / RandSteps
DrandIndex(k) == ((ShuffleLen * 10000000 - 1) * k) \div (RandSteps * 10000000)

\* The deck shuffle_deck is handed: the first cards of the built deck.
ShuffleInput == [k \in 0..(ShuffleLen - 1) |-> BuiltDeck[k]]

\* for (i = 0; i < 52; i++) temp[i] = deck[i];
ShuffleCopy ==
    /\ pc = "copy"
    /\ i < ShuffleLen
    /\ temp' = [temp EXCEPT ![i] = deck[i]]
    /\ IF i + 1 < ShuffleLen
         THEN /\ i' = i + 1
              /\ UNCHANGED pc
         ELSE /\ i' = 0
              /\ pc' = "draw"
    /\ UNCHANGED <<deck, n, suit, j, rank, hand, q, prod, u, a, b, best, subhand,
                   idx, freq, outside, val, ret>>

\* The slot left as it is instead of being zeroed.
ShuffleMark_keep(t, m) == t

\* temp[n] = 0;
ShuffleMark(t, m) == [t EXCEPT ![m] = 0]

\* One pass of the do-while body with its test, drand48() being k / RandSteps:
\* the draw is repeated while temp[n] == 0; otherwise deck[i] = temp[n],
\* temp[n] = 0 and the for loop steps.
ShuffleDraw(k) ==
    /\ pc = "draw"
    /\ i < ShuffleLen
    /\ n' = DrandIndex(k)
    /\ IF temp[n'] = 0
         THEN UNCHANGED <<deck, temp, i, pc>>
         ELSE /\ deck' = [deck EXCEPT ![i] = temp[n']]
              /\ temp' = ShuffleMark(temp, n')
              /\ i' = i + 1
              /\ pc' = IF i + 1 < ShuffleLen THEN "draw" ELSE "done"
    /\ UNCHANGED <<suit, j, rank, hand, q, prod, u, a, b, best, subhand, idx, freq,
                   outside, val, ret>>

InitShuffle ==
    /\ pc = "copy"
    /\ deck = ShuffleInput
    /\ n = 0
    /\ suit = 0
    /\ i = 0
    /\ j = 0
    /\ rank = 0
    /\ temp = [k \in 0..(ShuffleLen - 1) |-> 0]
    /\ hand = <<>>
    /\ q = 0
    /\ prod = 0
    /\ u = <<0, 0>>
    /\ a = 0
    /\ b = 0
    /\ best = 0
    /\ subhand = <<>>
    /\ idx = <<0, 0, 0>>
    /\ freq = <<>>
    /\ outside = 0
    /\ val = 0
    /\ ret = 0

NextShuffle == ShuffleCopy \/ \E k \in 0..(RandSteps - 1) : ShuffleDraw(k)

\* The copy loop runs on, and the random source keeps offering every value.
SpecShuffle ==
    /\ InitShuffle
    /\ [][NextShuffle]_vars
    /\ WF_vars(ShuffleCopy)
    /\ \A k \in 0..(RandSteps - 1) : WF_vars(ShuffleDraw(k))

(***************************************************************************)
(* eval_5cards and find_fast on given arguments.  The hands are five cards *)
(* of the built deck: every choice of five ranks (repeats allowed), the    *)
(* suits stepping through clubs, diamonds, hearts, spades by a stride from *)
(* a first suit, in ascending or descending order of rank.  A stride of 0  *)
(* gives one suit, and so the same card again where a rank repeats.        *)
(***************************************************************************)
MaxStride == 1
MaxRot == 0

\* deck[13 * s + r]: the card of rank index r in the s-th suit of init_deck
HandCard(x, k, stride, rot) == BuiltDeck[13 * ((rot + (k - 1) * stride) % 4) + x[k]]

HandOf(x, stride, rot, rev) ==
    LET h == <<HandCard(x, 1, stride, rot), HandCard(x, 2, stride, rot),
               HandCard(x, 3, stride, rot), HandCard(x, 4, stride, rot),
               HandCard(x, 5, stride, rot)>>
    IN  IF rev THEN <<h[5], h[4], h[3], h[2], h[1]>> ELSE h

HandInputs ==
    {HandOf(x, stride, rot, rev) :
       x \in RankTuples, stride \in 0..MaxStride, rot \in 0..MaxRot, rev \in BOOLEAN}

\* Arguments of find_fast at the edges of the unsigned range.
ProbeHalves == {0, 1, 32767, 32768, 65535}
ProbeInputs == ProbeHalves \X ProbeHalves

\* hash_values[] holds classes and zero padding; the entry found for a
\* product that is the key of no hand is one of them, which one is not known.
UnkeyedEntries == {0, 7462}

\* eval_5cards(c1..c5) line by line: the values its locals take, the return
\* statement it leaves by, and the values that statement can return.
Eval5Trace(h) ==
    LET qq == EvalQ(h)
        p == EvalProduct(h)
        m == FindFastMix(U32(p))
    IN  IF EvalFlush(h)
          THEN [at |-> "return_flushes", q |-> qq, prod |-> 0, u |-> <<0, 0>>,
                a |-> 0, b |-> 0, rets |-> {flushes[qq]}]
        ELSE IF unique5[qq] # 0
          THEN [at |-> "return_unique5", q |-> qq, prod |-> 0, u |-> <<0, 0>>,
                a |-> 0, b |-> 0, rets |-> {unique5[qq]}]
        ELSE [at |-> "return_hash", q |-> qq, prod |-> p, u |-> m,
              a |-> FindFastA(m), b |-> FindFastB(m),
              rets |-> IF p \in HashKeys THEN {hash_lookup[p]} ELSE UnkeyedEntries]

Eval5Call ==
    /\ pc = "eval_5cards"
    /\ \E t \in {Eval5Trace(hand)} :
         /\ pc' = t.at
         /\ q' = t.q
         /\ prod' = t.prod
         /\ u' = t.u
         /\ a' = t.a
         /\ b' = t.b
         /\ ret' \in t.rets
    /\ UNCHANGED <<deck, n, suit, i, j, rank, temp, hand, best, subhand, idx, freq,
                   outside, val>>

\* The expression (c1 & 0xff) * ... * (c5 & 0xff) on any five cards.
ProductCall ==
    /\ pc = "product"
    /\ prod' = EvalProduct(hand)
    /\ pc' = "multiplied"
    /\ UNCHANGED <<deck, n, suit, i, j, rank, temp, hand, q, u, a, b, best, subhand,
                   idx, freq, outside, val, ret>>

\* find_fast(u) up to the computation of a and b.
FindFastCall ==
    /\ pc = "find_fast"
    /\ \E m \in {FindFastMix(u)} :
         /\ u' = m
         /\ a' = FindFastA(m)
         /\ b' = FindFastB(m)
    /\ pc' = "found"
    /\ UNCHANGED <<deck, n, suit, i, j, rank, temp, hand, q, prod, best, subhand,
                   idx, freq, outside, val, ret>>

InitEval ==
    /\ deck = BuiltDeck
    /\ n = 0
    /\ suit = 0
    /\ i = 0
    /\ j = 0
    /\ rank = 0
    /\ temp = EmptyDeck
    /\ q = 0
    /\ prod = 0
    /\ a = 0
    /\ b = 0
    /\ best = 0
    /\ subhand = <<>>
    /\ idx = <<0, 0, 0>>
    /\ freq = <<>>
    /\ outside = 0
    /\ val = 0
    /\ ret = 0
    /\ \/ /\ pc \in {"eval_5cards", "product"}
          /\ hand \in HandInputs
          /\ u = <<0, 0>>
       \/ /\ pc = "find_fast"
          /\ hand = <<>>
          /\ u \in ProbeInputs

NextEval == Eval5Call \/ ProductCall \/ FindFastCall

SpecEval == InitEval /\ [][NextEval]_vars

(***************************************************************************)
(* eval_7hand on seven distinct cards of the deck.                         *)
(***************************************************************************)
\* arrays.h: perm7[21][5], the ways of taking five of seven positions.
perm7 == Stored([r \in 0..20 |->
    << <<0, 1, 2, 3, 4>>, <<0, 1, 2, 3, 5>>, <<0, 1, 2, 3, 6>>, <<0, 1, 2, 4, 5>>,
       <<0, 1, 2, 4, 6>>, <<0, 1, 2, 5, 6>>, <<0, 1, 3, 4, 5>>, <<0, 1, 3, 4, 6>>,
       <<0, 1, 3, 5, 6>>, <<0, 1, 4, 5, 6>>, <<0, 2, 3, 4, 5>>, <<0, 2, 3, 4, 6>>,
       <<0, 2, 3, 5, 6>>, <<0, 2, 4, 5, 6>>, <<0, 3, 4, 5, 6>>, <<1, 2, 3, 4, 5>>,
       <<1, 2, 3, 4, 6>>, <<1, 2, 3, 5, 6>>, <<1, 2, 4, 5, 6>>, <<1, 3, 4, 5, 6>>,
       <<2, 3, 4, 5, 6>> >>[r + 1]])

\* The seven-card hands tried: seven of the first PoolSize cards of the pool
\* 2c 2d 2h 7c Ac Kc Qc Jc Tc Ad Ah As (positions in the built deck).
PoolSize == 9
PoolDeck == <<0, 13, 26, 5, 12, 11, 10, 9, 8, 25, 38, 51>>

\* The m-th smallest element of the set S of integers.
Nth(S, m) == CHOOSE x \in S : Cardinality({y \in S : y < x}) = m - 1

SevenInputs ==
    {[m \in 1..7 |-> BuiltDeck[PoolDeck[Nth(S, m)]]] :
       S \in {T \in SUBSET (1..PoolSize) : Cardinality(T) = 7}}

\* for (j = 0; j < 5; j++) subhand[j] = hand[ perm7[i][j] ];
SubHand(h, r) == [m \in 1..5 |-> h[perm7[r][m] + 1]]

\* The comparison turned round.
Better_reversed(x, y) == x > y

\* if (q < best)
Better(x, y) == x < y

\* One pass of the loop over the rows of perm7.
Eval7Step ==
    /\ pc = "eval_7hand"
    /\ i < 21
    /\ \E sh \in {SubHand(hand, i)} :
         /\ subhand' = sh
         /\ \E v \in {eval_5hand(sh)} :
              /\ q' = v
              /\ best' = IF Better(v, best) THEN v ELSE best
    /\ i' = i + 1
    /\ UNCHANGED <<pc, deck, n, suit, j, rank, temp, hand, prod, u, a, b, idx, freq,
                   outside, val, ret>>

\* return best;
Eval7Return ==
    /\ pc = "eval_7hand"
    /\ i >= 21
    /\ ret' = best
    /\ pc' = "returned"
    /\ UNCHANGED <<deck, n, suit, i, j, rank, temp, hand, q, prod, u, a, b, best,
                   subhand, idx, freq, outside, val>>

InitSeven ==
    /\ pc = "eval_7hand"
    /\ deck = BuiltDeck
    /\ n = 0
    /\ suit = 0
    /\ i = 0
    /\ j = 0
    /\ rank = 0
    /\ temp = EmptyDeck
    /\ hand \in SevenInputs
    /\ q = 0
    /\ prod = 0
    /\ u = <<0, 0>>
    /\ a = 0
    /\ b = 0
    /\ best = 9999
    /\ subhand = <<>>
    /\ idx = <<0, 0, 0>>
    /\ freq = <<>>
    /\ outside = 0
    /\ val = 0
    /\ ret = 0

NextSeven == Eval7Step \/ Eval7Return

SpecSeven == InitSeven /\ [][NextSeven]_vars

(***************************************************************************)
(* Properties                                                              *)
(***************************************************************************)
\* C1: over all 2,598,960 hands of five distinct cards of the built deck,
\* every value of eval_5hand lies in 1..7462 (outside counts those that do
\* not), no category is counted beyond its number, and at the end the counts
\* of hand_rank(eval_5hand(hand)) are 40, 624, 3744, 5108, 10200, 54912,
\* 123552, 1098240 and 1302540, so that main reports no deviation.
C1_Histogram ==
    /\ outside = 0
    /\ \A k \in 1..9 :
         freq[k] <= <<40, 624, 3744, 5108, 10200, 54912, 123552, 1098240, 1302540>>[k]
    /\ freq[0] = 0
    /\ pc = "exit" =>
         /\ \A k \in 1..9 :
              freq[k] = <<40, 624, 3744, 5108, 10200, 54912, 123552, 1098240, 1302540>>[k]
         /\ ret = 0

C1_AllHandsCounted ==
    /\ pc = "exit"
    /\ idx[1] = 48
    /\ freq[STRAIGHT_FLUSH] = 40
    /\ freq[HIGH_CARD] = 1302540

\* The five-element subsets of the seven positions of a hand, and the five
\* cards of h at the positions S, in ascending order of position.
FiveSubsets == {S \in SUBSET (1..7) : Cardinality(S) = 5}
PickFive(h, S) == [m \in 1..5 |-> h[Nth(S, m)]]
MinOf(S) == CHOOSE x \in S : \A y \in S : x <= y

\* C2: the 21 rows of perm7 are 21 distinct sets of five positions in 0..6;
\* while eval_7hand runs, best is the least value of the rows evaluated so
\* far (9999 before the first); the value returned is not 9999, is at most
\* eval_5hand of any five of the seven cards and is that of some five.
C2_BestOfSeven ==
    /\ \A r \in 0..20 :
         /\ {perm7[r][m] : m \in 1..5} \subseteq 0..6
         /\ Cardinality({perm7[r][m] : m \in 1..5}) = 5
    /\ Cardinality({{perm7[r][m] : m \in 1..5} : r \in 0..20}) = 21
    /\ pc = "eval_7hand" =>
         best = MinOf({9999} \cup {eval_5hand(SubHand(hand, r)) : r \in 0..(i - 1)})
    /\ pc = "returned" =>
         /\ ret # 9999
         /\ \A S \in FiveSubsets : ret <= eval_5hand(PickFive(hand, S))
         /\ \E S \in FiveSubsets : ret = eval_5hand(PickFive(hand, S))

\* The hand 2c 2d 2h 7c Ac Kc Qc evaluated to the end: its best five are the
\* club flush, which beats the three deuces.
C2_SevenReturned ==
    /\ pc = "returned"
    /\ i = 21
    /\ hand[1] = BuiltDeck[0]
    /\ hand[7] = BuiltDeck[10]
    /\ ret = best
    /\ hand_rank(ret) = FLUSH

\* C3 as stated: hand_rank(10) = STRAIGHT_FLUSH, hand_rank(11) =
\* FOUR_OF_A_KIND, hand_rank(166) = FOUR_OF_A_KIND, hand_rank(167) =
\* FULL_HOUSE, hand_rank(1599) = STRAIGHT, hand_rank(1600) = FLUSH,
\* hand_rank(6185) = ONE_PAIR, hand_rank(6186) = HIGH_CARD.
C3_AsStated ==
    pc = "ranked" =>
      /\ val = 10 => ret = STRAIGHT_FLUSH
      /\ val = 11 => ret = FOUR_OF_A_KIND
      /\ val = 166 => ret = FOUR_OF_A_KIND
      /\ val = 167 => ret = FULL_HOUSE
      /\ val = 1599 => ret = STRAIGHT
      /\ val = 1600 => ret = FLUSH
      /\ val = 6185 => ret = ONE_PAIR
      /\ val = 6186 => ret = HIGH_CARD

\* C3: hand_rank(10) = STRAIGHT_FLUSH, hand_rank(11) = FOUR_OF_A_KIND,
\* hand_rank(166) = FOUR_OF_A_KIND, hand_rank(167) = FULL_HOUSE,
\* hand_rank(1599) = FLUSH, hand_rank(1600) = STRAIGHT, hand_rank(6185) =
\* ONE_PAIR, hand_rank(6186) = HIGH_CARD.
C3_Boundaries ==
    pc = "ranked" =>
      /\ val = 10 => ret = STRAIGHT_FLUSH
      /\ val = 11 => ret = FOUR_OF_A_KIND
      /\ val = 166 => ret = FOUR_OF_A_KIND
      /\ val = 167 => ret = FULL_HOUSE
      /\ val = 1599 => ret = FLUSH
      /\ val = 1600 => ret = STRAIGHT
      /\ val = 6185 => ret = ONE_PAIR
      /\ val = 6186 => ret = HIGH_CARD

C3_WorstFlushRanked ==
    /\ pc = "ranked"
    /\ val = 1599
    /\ ret = FLUSH

\* The number of classes of each category, best category first.
CategorySizes == <<10, 156, 156, 1277, 10, 858, 858, 2860, 1277>>
RECURSIVE ClassesBefore(_)
ClassesBefore(k) == IF k = 1 THEN 0 ELSE ClassesBefore(k - 1) + CategorySizes[k - 1]

\* C4: hand_rank sends v in 1..7462 to the category k whose interval holds
\* v, the intervals lying end to end from 1 with the sizes 10, 156, 156,
\* 1277, 10, 858, 858, 2860, 1277 (7462 in all); and the category of v is
\* never below that of v - 1.
C4_Partition ==
    /\ ClassesBefore(9) + CategorySizes[9] = 7462
    /\ pc = "ranked" =>
         /\ ret \in 1..9
         /\ ClassesBefore(ret) < val
         /\ val <= ClassesBefore(ret) + CategorySizes[ret]
         /\ val > 1 => hand_rank(val - 1) <= ret

C4_LastStraightRanked ==
    /\ pc = "ranked"
    /\ val = 1609
    /\ ret = STRAIGHT

\* The indexes at which the deck holds the card of rank r and suit s.
PlacesOf(r, s) ==
    {k \in 0..(DeckLen - 1) : BitAnd(deck[k], s) # 0 /\ RANK(deck[k]) = r}

\* C5: once init_deck is through, the 52 entries of the deck are pairwise
\* distinct, each has exactly one of the four suit bits and a rank nibble in
\* 2..14, and each of the 13 x 4 pairs of rank and suit is at exactly one
\* index; find_card returns an index in 0..51, never -1, at which that very
\* pair and no other sits, so that different pairs give different indexes.
C5_DeckAndFindCard ==
    /\ pc \in {"ready", "find_card", "returned"} =>
         /\ \A k1, k2 \in 0..(DeckLen - 1) : k1 # k2 => deck[k1] # deck[k2]
         /\ \A k \in 0..(DeckLen - 1) :
              /\ Cardinality({s \in Suits : BitAnd(deck[k], s) # 0}) = 1
              /\ RANK(deck[k]) \in 2..14
         /\ \A r \in Ranks, s \in Suits : Cardinality(PlacesOf(r, s)) = 1
    /\ pc = "returned" =>
         /\ ret \in 0..51
         /\ ret # -1
         /\ PlacesOf(rank, suit) = {ret}
         /\ \A r \in Ranks, s \in Suits :
              ret \in PlacesOf(r, s) => (r = rank /\ s = suit)

C5_AceOfSpadesFound ==
    /\ pc = "returned"
    /\ rank = 14
    /\ suit = SPADE
    /\ ret = 51

\* C6: in the deck built by init_deck the Five of Hearts is the integer
\* 0x00202507 (2106631) and the Queen of Clubs is 0x10008C1F (268471327):
\* the rank bit of a card of rank r is bit 16 + r, as the layout
\* |xbbbbbbb|bbbbbbxx|cdhsrrrr|xxpppppp| documents.
C6_DocumentedCards ==
    pc = "returned" =>
      /\ (rank = 5 /\ suit = HEART) => deck[ret] = 2106631
      /\ (rank = 12 /\ suit = CLUB) => deck[ret] = 268471327
      /\ BitAnd(deck[ret], Shl(1, 16 + rank)) # 0

\* C7: in shuffle_deck every drawn n lies within the deck; what is copied
\* into deck[i] is temp[n] and is not zero, so no slot is taken twice; when
\* the copy loop runs on and the random source keeps offering every value,
\* the routine comes to its end; and at its end the deck holds the cards it
\* was handed, each once, none zero.
C7_Shuffle ==
    /\ [](n \in 0..(ShuffleLen - 1))
    /\ [][(pc = "draw" /\ deck' # deck) =>
            (temp[n'] # 0 /\ deck'[i] = temp[n'] /\ temp'[n'] = 0)]_vars
    /\ [](pc \in {"draw", "done"} => \A k \in 0..(i - 1) : deck[k] # 0)
    /\ <>(pc = "done")
    /\ [](pc = "done" =>
            /\ i = ShuffleLen
            /\ {deck[k] : k \in 0..(ShuffleLen - 1)}
                 = {ShuffleInput[k] : k \in 0..(ShuffleLen - 1)}
            /\ Cardinality({deck[k] : k \in 0..(ShuffleLen - 1)}) = ShuffleLen
            /\ \A k \in 0..(ShuffleLen - 1) : deck[k] # 0)

C7_ShuffledToReverse ==
    /\ pc = "done"
    /\ \A k \in 0..(ShuffleLen - 1) : deck[k] = ShuffleInput[ShuffleLen - 1 - k]
    /\ \A k \in 0..(ShuffleLen - 1) : temp[k] = 0

\* How many of the five cards of h have the rank of index k (deuce 0).
HandCounts(h) == [k \in 0..12 |-> Cardinality({m \in 1..5 : RANK(h[m]) = k + 2})]

RECURSIVE PrimePower(_, _)
PrimePower(k, c) == IF c = 0 THEN 1 ELSE primes[k] * PrimePower(k, c - 1)

\* The product of the rank primes, each as often as its rank is counted.
RECURSIVE CountsProduct(_, _)
CountsProduct(cnt, k) ==
    IF k < 0 THEN 1 ELSE PrimePower(k, cnt[k]) * CountsProduct(cnt, k - 1)

\* C8: the product of the five low bytes, on any five cards and where
\* eval_5cards computes it, is the product of the rank primes taken as often
\* as each rank occurs in the hand, whatever the suits and the order; and
\* the product gives the number of cards of each rank back, so that hands
\* with different rank multisets have different products.
C8_ProductOfRanks ==
    pc \in {"multiplied", "return_hash"} =>
      /\ prod = CountsProduct(HandCounts(hand), 12)
      /\ \A k \in 0..12 : Multiplicity(prod, k) = HandCounts(hand)[k]

\* In descending order: an ace, three kings of three other suits, a deuce.
C8_DescendingMixedSuits ==
    /\ pc = "multiplied"
    /\ RANK(hand[1]) = 14
    /\ RANK(hand[2]) = 13
    /\ RANK(hand[4]) = 13
    /\ RANK(hand[5]) = 2
    /\ BitAnd(hand[1], hand[2]) < 4096
    /\ prod = 41 * 37 * 37 * 37 * 2

\* C9: the q that eval_5cards forms from five cards of the built deck lies
\* in 1..8191 and has as many bits set as the five cards have distinct
\* ranks; when the flush test holds on five distinct cards, it has five.
C9_RankMask ==
    pc \in {"return_flushes", "return_unique5", "return_hash"} =>
      /\ q \in 1..8191
      /\ BitCount(q) = Cardinality({RANK(hand[m]) : m \in 1..5})
      /\ (pc = "return_flushes" /\ Cardinality({hand[m] : m \in 1..5}) = 5)
           => BitCount(q) = 5

C9_FlushOfFive ==
    /\ pc = "return_flushes"
    /\ Cardinality({hand[m] : m \in 1..5}) = 5
    /\ BitCount(q) = 5
    /\ q = 4111

\* C10: the product of the five low bytes is at least 1 and at most 41^5 =
\* 115856201, below 2^31, repeated cards included; and find_fast, on the
\* products and on arguments at the edges of the 32-bit range, leaves b in
\* 0..511 and a in 0..8191.
C10_ProductAndHashRanges ==
    /\ 115856201 = 41 * 41 * 41 * 41 * 41
    /\ 115856201 <= 2147483647
    /\ pc \in {"multiplied", "return_hash"} => prod \in 1..115856201
    /\ pc \in {"return_hash", "found"} =>
         /\ b \in 0..511
         /\ a \in 0..8191

C10_FiveAcesHashed ==
    /\ pc = "return_hash"
    /\ prod = 115856201
    /\ u = <<64953, 2539>>
    /\ a = 7827
    /\ b = 265

====
